---- MODULE Spec2Model ----
(***************************************************************************)
(* Request orchestration core of aphrodite/engine/async_aphrodite.py:      *)
(* AsyncStream, RequestTracker, the background engine loop with its        *)
(* per-virtual-engine step tasks, and the AsyncAphrodite facade.           *)
(*                                                                         *)
(* Every asyncio task is a process whose atomic actions are the code       *)
(* between two suspension points (await on something that really           *)
(* suspends).  The event loop's ready queue is abstracted to an arbitrary  *)
(* interleaving of those slices.                                           *)
(***************************************************************************)
EXTENDS Naturals, Integers, Sequences, FiniteSets, TLC

(***************************************************************************)
(* Bounds of the model.                                                    *)
(***************************************************************************)
\* number of distinct request ids callers use
NumRequestIds == 2
\* number of streams RequestTracker.add_request may create in one run
MaxStreams == 2
\* outputs the external engine produces for one request before it finishes it
MaxOutputs == 1
\* cancellation events in one run: AsyncAphrodite.abort calls, cancellations
\* of a caller's task, cancellation of the loop task
MaxAborts == 1
\* successful start_background_loop calls in one run
MaxStarts == 2
\* put calls, and finish calls, on the stream of the stand-alone stream
\* specification
MaxPuts == 3
MaxFinishes == 2
\* ids waiting in _finished_requests when a method of the stand-alone
\* tracker specification is called
MaxBuffered == 2

\* the largest engine.parallel_config.pipeline_parallel_size that is
\* configured (Init draws the configured size pp from 1..this)
MaxPipelineParallelSize == 2

RequestIds == 1..NumRequestIds
StreamIds == 1..MaxStreams
VirtualEngines == 1..MaxPipelineParallelSize

(***************************************************************************)
(* Items of a stream's queue.                                              *)
(***************************************************************************)
\* a RequestOutput of request rid: its n-th output, finished or not
RequestOutput(rid, n, fin) ==
    [kind |-> "out", request_id |-> rid, n |-> n, finished |-> fin, exc |-> "none"]

\* an exception object put on a stream
ExceptionItem(e) ==
    [kind |-> "exc", request_id |-> 0, n |-> 0, finished |-> FALSE, exc |-> e]

\* the terminal marker finish() enqueues
StopAsyncIteration ==
    [kind |-> "stop", request_id |-> 0, n |-> 0, finished |-> FALSE, exc |-> "none"]

\* isinstance(result, Exception) in __anext__: the marker is an exception too
IsException(item) == item.kind \in {"exc", "stop"}

(***************************************************************************)
(* AsyncStream.  queue is the history of everything enqueued; a consumer   *)
(* holds its own read position, so a dequeue does not change the record.   *)
(***************************************************************************)
AsyncStream(request_id) ==
    [request_id |-> request_id, queue |-> <<>>, finished |-> FALSE]

\* put without the check of the finished flag
put_unguarded(s, item) == [s EXCEPT !.queue = Append(@, item)]

put(s, item) ==
    IF s.finished THEN s ELSE [s EXCEPT !.queue = Append(@, item)]

finish(s) ==
    [s EXCEPT !.queue = Append(@, StopAsyncIteration), !.finished = TRUE]

\* __anext__ with pos items already dequeued: blocks on an empty queue,
\* raises an exception item (the marker included), returns anything else
anext(s, pos) ==
    IF pos >= Len(s.queue) THEN [res |-> "block", item |-> StopAsyncIteration]
    ELSE IF s.queue[pos + 1].kind = "stop"
         THEN [res |-> "stop", item |-> s.queue[pos + 1]]
    ELSE IF IsException(s.queue[pos + 1])
         THEN [res |-> "raise", item |-> s.queue[pos + 1]]
    ELSE [res |-> "yield", item |-> s.queue[pos + 1]]

\* how `async for` over queue q ends from position pos on, when it runs to
\* its end: "stop" cleanly at the marker, "raise" with an
\* exception item, "block" when the queue runs out first
RECURSIVE EndOf(_, _)
EndOf(q, pos) ==
    IF pos >= Len(q) THEN [res |-> "block", exc |-> "none"]
    ELSE IF q[pos + 1].kind = "stop" THEN [res |-> "stop", exc |-> "none"]
    ELSE IF q[pos + 1].kind = "exc" THEN [res |-> "raise", exc |-> q[pos + 1].exc]
    ELSE EndOf(q, pos + 1)

(***************************************************************************)
(* RequestTracker as functions of a tracker value                          *)
(*   t.streams            every AsyncStream created so far, by stream id   *)
(*   t.request_streams    _request_streams: request id -> stream id, 0     *)
(*                        when the id is not a key                         *)
(*   t.finished_requests  _finished_requests queue of request ids          *)
(*   t.new_requests       _new_requests queue, one stream id per entry     *)
(*                        (the kwargs of an entry are its stream's id)     *)
(*   t.new_requests_event the asyncio.Event                                *)
(***************************************************************************)
RequestTracker(streams) ==
    [streams |-> streams,
     request_streams |-> [r \in RequestIds |-> 0],
     finished_requests |-> <<>>,
     new_requests |-> <<>>,
     new_requests_event |-> FALSE]

Contains(t, request_id) == t.request_streams[request_id] # 0

LiveStream(t, request_id) == t.streams[t.request_streams[request_id]]

has_new_requests(t) == t.new_requests # <<>>

\* abort_request without the check of the stream's finished flag
abort_request_unguarded(t, request_id) ==
    LET q == [t EXCEPT !.finished_requests = Append(@, request_id)]
    IN  IF ~Contains(t, request_id) THEN q
        ELSE [q EXCEPT !.streams[t.request_streams[request_id]] = finish(@)]

abort_request(t, request_id) ==
    LET q == [t EXCEPT !.finished_requests = Append(@, request_id)]
    IN  IF ~Contains(t, request_id) \/ LiveStream(t, request_id).finished
        THEN q
        ELSE [q EXCEPT !.streams[t.request_streams[request_id]] = finish(@)]

\* add_request with the duplicate check after the stream is created and
\* buffered
add_request_check_late(t, request_id) ==
    LET sid == Len(t.streams) + 1
        q == [t EXCEPT !.streams = Append(@, AsyncStream(request_id)),
                       !.new_requests = Append(@, sid),
                       !.new_requests_event = TRUE]
    IN  IF Contains(t, request_id)
        THEN [raised |-> "KeyError", t |-> q, stream |-> 0]
        ELSE [raised |-> "none", t |-> q, stream |-> sid]

\* add_request that does not set new_requests_event
add_request_no_event(t, request_id) ==
    IF Contains(t, request_id)
    THEN [raised |-> "KeyError", t |-> t, stream |-> 0]
    ELSE LET sid == Len(t.streams) + 1
         IN  [raised |-> "none",
              t |-> [t EXCEPT !.streams = Append(@, AsyncStream(request_id)),
                              !.new_requests = Append(@, sid)],
              stream |-> sid]

\* add_request: [raised, t, stream]; stream is the id of the new stream
add_request(t, request_id) ==
    IF Contains(t, request_id)
    THEN [raised |-> "KeyError", t |-> t, stream |-> 0]
    ELSE LET sid == Len(t.streams) + 1
         IN  [raised |-> "none",
              t |-> [t EXCEPT !.streams = Append(@, AsyncStream(request_id)),
                              !.new_requests = Append(@, sid),
                              !.new_requests_event = TRUE],
              stream |-> sid]

\* self._request_streams[request_id].put(item), then abort_request when
\* `then_abort`; a missing key raises KeyError before anything is changed
PutLive(t, request_id, item, then_abort) ==
    IF ~Contains(t, request_id)
    THEN [raised |-> "KeyError", t |-> t]
    ELSE LET q == [t EXCEPT !.streams[t.request_streams[request_id]] = put(@, item)]
         IN  [raised |-> "none",
              t |-> IF then_abort THEN abort_request(q, request_id) ELSE q]

\* process_request_output that never finalizes
process_request_output_no_abort(t, request_output) ==
    PutLive(t, request_output.request_id, request_output, FALSE)

process_request_output(t, request_output) ==
    PutLive(t, request_output.request_id, request_output, request_output.finished)

process_exception(t, request_id, exception) ==
    PutLive(t, request_id, ExceptionItem(exception), TRUE)

\* propagate_exception(exc, request_id)
propagate_exception_to(t, exc, request_id) ==
    PutLive(t, request_id, ExceptionItem(exc), TRUE)

\* propagate_exception(exc): every key of _request_streams, here in
\* ascending id order (the order only decides the order of the ids in
\* finished_requests, which the drain collects into a set)
RECURSIVE PropagateFrom(_, _, _)
PropagateFrom(t, exc, r) ==
    IF r > NumRequestIds THEN t
    ELSE IF ~Contains(t, r) THEN PropagateFrom(t, exc, r + 1)
    ELSE PropagateFrom(PutLive(t, r, ExceptionItem(exc), TRUE).t, exc, r + 1)

\* propagate_exception(exc) that stops after the first key
propagate_exception_first_key(t, exc) ==
    IF \E r \in RequestIds : Contains(t, r)
    THEN PutLive(t, CHOOSE r \in RequestIds :
                       Contains(t, r) /\ \A q \in 1..(r - 1) : ~Contains(t, q),
                 ExceptionItem(exc), TRUE).t
    ELSE t

propagate_exception(t, exc) == PropagateFrom(t, exc, 1)

Range(seq) == {seq[i] : i \in 1..Len(seq)}

\* the second loop of get_new_and_finished_requests over the entries of
\* _new_requests from index i on; acc.new collects the returned requests
RECURSIVE DrainNew(_, _, _)
DrainNew(acc, finished_requests, i) ==
    IF i > Len(acc.t.new_requests)
    THEN [acc EXCEPT !.t.new_requests = <<>>]
    ELSE LET sid == acc.t.new_requests[i]
             rid == acc.t.streams[sid].request_id
         IN  IF rid \in finished_requests
             THEN DrainNew([acc EXCEPT !.t.streams[sid] = finish(@)],
                           finished_requests, i + 1)
             ELSE DrainNew([acc EXCEPT !.t.request_streams[rid] = sid,
                                       !.new = Append(@, sid)],
                           finished_requests, i + 1)

\* the first loop: every buffered id joins the set and is popped from
\* _request_streams
DrainFinished(t) ==
    [t EXCEPT !.request_streams =
                  [r \in RequestIds |->
                      IF r \in Range(t.finished_requests) THEN 0 ELSE @[r]],
              !.finished_requests = <<>>]

\* the two loops in the other order: nothing is known to be finished while
\* the new requests are taken
get_new_and_finished_requests_new_first(t) ==
    LET a == DrainNew([t |-> t, new |-> <<>>, fin |-> {}], {}, 1)
    IN  [t |-> DrainFinished(a.t), new |-> a.new,
         fin |-> Range(t.finished_requests)]

\* get_new_and_finished_requests: [t, new, fin]
get_new_and_finished_requests(t) ==
    LET finished_requests == Range(t.finished_requests)
    IN  DrainNew([t |-> DrainFinished(t), new |-> <<>>, fin |-> finished_requests],
                 finished_requests, 1)


(***************************************************************************)
(* State.                                                                  *)
(***************************************************************************)
VARIABLES
    \* the current RequestTracker (self._request_tracker) and all streams
    streams, request_streams, finished_requests, new_requests, new_requests_event,
    \* AsyncAphrodite
    start_engine_loop,        \* constructor argument
    pp,                       \* the configured pipeline_parallel_size
    starts,                   \* start_background_loop calls that succeeded;
                              \* 0: background_loop is None
    loop_pc,                  \* where _background_loop_unshielded stands
    callback,                 \* its done callback, scheduled and not yet run
    errored_with,             \* _errored_with
    \* run_engine_loop locals
    has_requests_in_progress, done,
    \* requests_in_progress of every loop task started so far
    tasks,
    \* the external engine: per submission its virtual engine (0: not held)
    \* and the number of outputs produced
    engine,
    \* callers
    consumer,                 \* per stream: the _process_request iteration
    aborts,                   \* cancellation events so far
    \* history
    forwarded,                \* submissions a drain returned as new requests
    raised_live,              \* streams live and unfinished when a step of
                              \* the running loop raised (none once that loop
                              \* is cancelled)
    log                       \* the last direct call of the stand-alone
                              \* specifications below and what it returned

vars == <<streams, request_streams, finished_requests, new_requests,
          new_requests_event, start_engine_loop, pp, starts, loop_pc, callback,
          errored_with, has_requests_in_progress, done, tasks, engine, consumer,
          aborts, forwarded, raised_live, log>>

trackerVars == <<streams, request_streams, finished_requests, new_requests,
                 new_requests_event>>
loopVars == <<loop_pc, callback, has_requests_in_progress, done>>
historyVars == <<forwarded, raised_live, log>>
facadeVars == <<start_engine_loop, pp, starts, loopVars, errored_with, tasks,
                engine, consumer, aborts, raised_live>>

\* the current tracker as a value, and its assignment
T == [streams |-> streams, request_streams |-> request_streams,
      finished_requests |-> finished_requests, new_requests |-> new_requests,
      new_requests_event |-> new_requests_event]

SetT(t) ==
    /\ streams' = t.streams
    /\ request_streams' = t.request_streams
    /\ finished_requests' = t.finished_requests
    /\ new_requests' = t.new_requests
    /\ new_requests_event' = t.new_requests_event

NoCall == [op |-> "none"]

NoTask == [pc |-> "none", new |-> <<>>, fin |-> {}, aborted |-> FALSE,
           batch |-> {}, result |-> FALSE, exc |-> "none"]

\* no request has been submitted
EmptyTracker ==
    /\ request_streams = [r \in RequestIds |-> 0]
    /\ finished_requests = <<>>
    /\ new_requests = <<>>
    /\ new_requests_event = FALSE
    /\ forwarded = {}

\* AsyncAphrodite.__init__: no background loop yet
NotStarted ==
    /\ starts = 0
    /\ loop_pc = "none"
    /\ callback = "none"
    /\ errored_with = "none"
    /\ has_requests_in_progress = [v \in VirtualEngines |-> FALSE]
    /\ done = {}
    /\ tasks = [g \in 1..MaxStarts |-> [v \in VirtualEngines |-> NoTask]]
    /\ engine = [s \in StreamIds |-> [ve |-> 0, n |-> 0]]
    /\ consumer = [s \in StreamIds |-> "none"]
    /\ aborts = 0
    /\ raised_live = {}

Init ==
    /\ streams = <<>>
    /\ EmptyTracker
    /\ start_engine_loop \in BOOLEAN
    /\ pp \in VirtualEngines
    /\ NotStarted
    /\ log = NoCall


(***************************************************************************)
(* AsyncAphrodite: status queries and the caller-facing operations.        *)
(***************************************************************************)
\* _background_loop_unshielded.done()
LoopTaskDone == loop_pc \in {"failed", "cancelled"}

is_running == starts > 0 /\ ~LoopTaskDone

errored == errored_with # "none"

is_stopped == errored \/ (starts > 0 /\ LoopTaskDone)

\* the checks of start_background_loop without the one on errored
start_background_loop_checks_running_only(err, running) ==
    IF running THEN "RuntimeError" ELSE "ok"

\* the checks of start_background_loop on _errored_with and is_running:
\* the error raised, or "ok"
start_background_loop_checks(err, running) ==
    IF err # "none" THEN "AsyncEngineDeadError"
    ELSE IF running THEN "RuntimeError"
    ELSE "ok"

\* what start_background_loop does in the current state
start_background_loop_result == start_background_loop_checks(errored_with, is_running)

\* the effects of a successful start_background_loop: a fresh tracker and a
\* new loop task (with has_requests_in_progress = [False] * size), whose
\* first slice has not run yet; t is the tracker the facade ends up with
StartLoopThen(t) ==
    /\ SetT(t)
    /\ starts' = starts + 1
    /\ loop_pc' = "top"
    /\ has_requests_in_progress' = [v \in VirtualEngines |-> FALSE]
    /\ done' = {}

\* start_background_loop called by the application
start_background_loop ==
    /\ starts < MaxStarts
    /\ \/ /\ start_background_loop_result = "ok"
          /\ StartLoopThen(RequestTracker(streams))
          /\ UNCHANGED <<start_engine_loop, pp, callback, errored_with, tasks,
                         engine, consumer, aborts, historyVars>>
       \/ /\ start_background_loop_result # "ok"
          /\ UNCHANGED vars

\* add_request that starts the loop whether or not auto-start is enabled
add_request_result_always_starts(request_id) ==
    IF ~is_running THEN start_background_loop_result
    ELSE add_request(T, request_id).raised

\* what AsyncAphrodite.add_request(request_id, ...) does in the current state:
\* the error it raises, or "ok"
add_request_result(request_id) ==
    IF ~is_running
    THEN IF start_engine_loop
         THEN start_background_loop_result
         ELSE "AsyncEngineDeadError"
    ELSE add_request(T, request_id).raised

AddRequestOutcome(request_id) ==
    IF add_request_result(request_id) = "none" THEN "ok"
    ELSE add_request_result(request_id)

\* what abort(request_id) and check_health() raise in the current state
abort_result == IF ~is_running THEN "AsyncEngineDeadError" ELSE "ok"

check_health_result == IF is_stopped THEN "AsyncEngineDeadError" ELSE "ok"

\* _abort as if it were guarded like abort
_abort_if_running(t, request_id) ==
    IF is_running THEN abort_request(t, request_id) ELSE t

_abort(t, request_id) == abort_request(t, request_id)

\* generate / encode up to their first suspension: _process_request calls
\* add_request and starts iterating the stream it returns.  An error of
\* add_request leaves the generator before its try block.
Generate(request_id) ==
    /\ Len(streams) < MaxStreams
    /\ \/ /\ is_running
          /\ add_request(T, request_id).raised = "none"
          /\ SetT(add_request(T, request_id).t)
          /\ consumer' = [consumer EXCEPT ![add_request(T, request_id).stream] = "iter"]
          /\ UNCHANGED <<start_engine_loop, pp, starts, loopVars, errored_with,
                         tasks, engine, aborts, historyVars>>
       \/ /\ ~is_running
          /\ add_request_result(request_id) = "ok"
          /\ starts < MaxStarts
          /\ LET r == add_request(RequestTracker(streams), request_id)
             IN  /\ StartLoopThen(r.t)
                 /\ consumer' = [consumer EXCEPT ![r.stream] = "iter"]
          /\ UNCHANGED <<start_engine_loop, pp, callback, errored_with, tasks,
                         engine, aborts, historyVars>>
       \/ /\ AddRequestOutcome(request_id) # "ok"
          /\ UNCHANGED vars

\* await engine.abort(request_id)
Abort(request_id) ==
    /\ aborts < MaxAborts
    /\ \/ /\ abort_result = "ok"
          /\ SetT(_abort(T, request_id))
          /\ aborts' = aborts + 1
          /\ UNCHANGED <<start_engine_loop, pp, starts, loopVars, errored_with,
                         tasks, engine, consumer, historyVars>>
       \/ /\ abort_result # "ok"
          /\ UNCHANGED vars

\* the iteration in _process_request runs to its end: it has yielded the
\* result items before the first exception object of the queue (yielding
\* changes nothing but the caller's read position) and now dequeues that
\* object: the marker ends it cleanly, any other exception reaches the
\* except clause, which calls _abort and re-raises
ConsumerNext(sid) ==
    /\ consumer[sid] = "iter"
    /\ LET e == EndOf(streams[sid].queue, 0)
           rid == streams[sid].request_id
       IN  \/ /\ e.res = "stop"
              /\ consumer' = [consumer EXCEPT ![sid] = "done"]
              /\ UNCHANGED trackerVars
           \/ /\ e.res = "raise"
              /\ consumer' = [consumer EXCEPT ![sid] = "raised"]
              /\ SetT(_abort(T, rid))
    /\ UNCHANGED <<start_engine_loop, pp, starts, loopVars, errored_with, tasks,
                   engine, aborts, historyVars>>

\* the caller's task is cancelled while it waits in __anext__
ConsumerCancel(sid) ==
    /\ consumer[sid] = "iter"
    /\ aborts < MaxAborts
    /\ aborts' = aborts + 1
    /\ consumer' = [consumer EXCEPT ![sid] = "cancelled"]
    /\ SetT(_abort(T, streams[sid].request_id))
    /\ UNCHANGED <<start_engine_loop, pp, starts, loopVars, errored_with, tasks,
                   engine, historyVars>>


(***************************************************************************)
(* The external engine, at its interface (spec section 6).                 *)
(***************************************************************************)
\* has_unfinished_requests_for_virtual_engine(ve)
has_unfinished_requests_for_virtual_engine(eng, ve) ==
    \E sid \in StreamIds : eng[sid].ve = ve

\* engine.abort_request(ids): drops what it holds for these ids, ignores
\* the ids it does not know
engine_abort_request(eng, ids, strs) ==
    [sid \in StreamIds |->
        IF eng[sid].ve # 0 /\ strs[sid].request_id \in ids
        THEN [eng[sid] EXCEPT !.ve = 0]
        ELSE eng[sid]]

\* scheduler[ve].schedule(): the batch of virtual engine ve
schedule(eng, ve) == {sid \in StreamIds : eng[sid].ve = ve}

(***************************************************************************)
(* run_engine_loop.  loop_pc:                                              *)
(*   "top"       suspended in sleep(0) / asyncio.wait, about to run the    *)
(*               loop body                                                 *)
(*   "pausing"   suspended in stop_remote_worker_execution_loop_async(),   *)
(*               the pause notification sent                               *)
(*   "parked"    suspended in new_requests_event.wait()                    *)
(*   "sleep"     asyncio.wait has returned `done`; in the sleep(0) yields  *)
(*   "failed" / "cancelled"  the task is done                              *)
(* The consecutive sleep(0) yields are one suspension point here: any      *)
(* number of slices of other tasks may run at a suspension point anyway.   *)
(***************************************************************************)
LoopRuns == starts > 0 /\ ~LoopTaskDone /\ callback = "none"

Created == [NoTask EXCEPT !.pc = "created"]

TaskDone(task) == task.pc \in {"done", "raised"}

\* requests_in_progress = [create_task(engine_step(ve)) for ve in range(size)]
LaunchAll ==
    /\ tasks' = [tasks EXCEPT ![starts] =
                    [v \in VirtualEngines |-> IF v <= pp THEN Created ELSE NoTask]]
    /\ has_requests_in_progress' = [v \in VirtualEngines |-> v <= pp]

\* any(has_requests_in_progress) that tells whether all are in progress
any_all(h, n) == \A v \in 1..n : h[v]

\* any(has_requests_in_progress), a list of n flags
any(h, n) == \E v \in 1..n : h[v]

\* `if not any(has_requests_in_progress)`: the pause notification is sent
\* and the loop is suspended in its await
LoopPauses ==
    /\ LoopRuns
    /\ loop_pc = "top"
    /\ ~any(has_requests_in_progress, pp)
    /\ loop_pc' = "pausing"
    /\ UNCHANGED <<trackerVars, start_engine_loop, pp, starts, callback,
                   errored_with, has_requests_in_progress, done, tasks, engine,
                   consumer, aborts, historyVars>>

\* the notification is acknowledged: wait_for_new_requests, which returns
\* at once when requests are pending or the event is set (the steps are
\* launched) and suspends otherwise
LoopIdle ==
    /\ LoopRuns
    /\ loop_pc = "pausing"
    /\ IF has_new_requests(T) \/ new_requests_event
       THEN /\ new_requests_event' = FALSE
            /\ LaunchAll
            /\ loop_pc' = "top"
       ELSE /\ loop_pc' = "parked"
            /\ UNCHANGED <<new_requests_event, tasks, has_requests_in_progress>>
    /\ UNCHANGED <<streams, request_streams, finished_requests, new_requests,
                   start_engine_loop, pp, starts, callback, errored_with, done,
                   engine, consumer, aborts, historyVars>>

\* the event fires: clear it and launch one step per virtual engine
LoopWake ==
    /\ LoopRuns
    /\ loop_pc = "parked"
    /\ new_requests_event
    /\ new_requests_event' = FALSE
    /\ LaunchAll
    /\ loop_pc' = "top"
    /\ UNCHANGED <<streams, request_streams, finished_requests, new_requests,
                   start_engine_loop, pp, starts, callback, errored_with, done,
                   engine, consumer, aborts, historyVars>>

\* asyncio.wait(requests_in_progress, FIRST_COMPLETED) returns the tasks
\* that are done when it resumes, whatever has_requests_in_progress says
LoopWaitReturns ==
    /\ LoopRuns
    /\ loop_pc = "top"
    /\ \E v \in 1..pp : has_requests_in_progress[v]
    /\ \E v \in 1..pp : TaskDone(tasks[starts][v])
    /\ done' = {v \in 1..pp : TaskDone(tasks[starts][v])}
    /\ loop_pc' = "sleep"
    /\ UNCHANGED <<trackerVars, start_engine_loop, pp, starts, callback,
                   errored_with, has_requests_in_progress, tasks, engine,
                   consumer, aborts, historyVars>>

\* the loop task ends with exception exc: its done callback is scheduled
LoopFails(exc) ==
    /\ loop_pc' = "failed"
    /\ callback' = exc
    /\ has_requests_in_progress' = [v \in VirtualEngines |-> FALSE]
    /\ done' = {}

\* handling that relaunches on the step's result alone
HandleDone_result_only(P) ==
    [v \in VirtualEngines |->
        IF v \in P /\ tasks[starts][v].result THEN Created ELSE tasks[starts][v]]

\* the step tasks of the current loop once the tasks in P are handled as
\* `for task in done` does
HandleDone(P) ==
    [v \in VirtualEngines |->
        IF v \in P /\ (tasks[starts][v].result
                       \/ has_unfinished_requests_for_virtual_engine(engine, v))
        THEN Created ELSE tasks[starts][v]]

\* the step tasks a loop task that ends leaves behind: the unfinished ones
\* keep running, nothing reads the finished ones any more
Forget(ts) == [v \in VirtualEngines |-> IF TaskDone(ts[v]) THEN NoTask ELSE ts[v]]

\* `for task in done`: task.result() re-raises the exception of a step that
\* raised (the tasks of the set before it, in the set's order, are handled);
\* otherwise every done task is relaunched or marked idle
LoopHandlesDone ==
    /\ LoopRuns
    /\ loop_pc = "sleep"
    /\ LET bad == {v \in done : tasks[starts][v].pc = "raised"}
       IN  \/ /\ bad = {}
              /\ tasks' = [tasks EXCEPT ![starts] = HandleDone(done)]
              /\ has_requests_in_progress' =
                     [v \in VirtualEngines |->
                         IF v \in done THEN HandleDone(done)[v].pc = "created"
                         ELSE has_requests_in_progress[v]]
              /\ loop_pc' = "top"
              /\ done' = {}
              /\ UNCHANGED callback
           \/ /\ bad # {}
              /\ \E v \in bad : \E P \in SUBSET (done \ bad) :
                    /\ tasks' = [tasks EXCEPT ![starts] = Forget(HandleDone(P))]
                    /\ LoopFails(tasks[starts][v].exc)
    /\ UNCHANGED <<trackerVars, start_engine_loop, pp, starts, errored_with,
                   engine, consumer, aborts, historyVars>>

\* ENGINE_ITERATION_TIMEOUT_S elapses in asyncio.wait: no task of
\* requests_in_progress is done, one of them is suspended in the engine
LoopTimesOut ==
    /\ LoopRuns
    /\ loop_pc = "top"
    /\ \E v \in 1..pp : has_requests_in_progress[v]
    /\ \A v \in 1..pp : ~TaskDone(tasks[starts][v])
    /\ \E v \in 1..pp : tasks[starts][v].pc \in {"admit", "exec"}
    /\ errored_with' = "TimeoutError"
    /\ LoopFails("TimeoutError")
    /\ UNCHANGED <<trackerVars, start_engine_loop, pp, starts, tasks, engine,
                   consumer, aborts, historyVars>>

\* a completion callback that leaves the streams alone
_error_callback_dropped(t, exc) == t

\* _error_callback(exc): set_errored, then propagate to the tracker the
\* facade holds now
_error_callback(t, exc) == propagate_exception(t, exc)

\* a completion callback without the CancelledError clause
task_completion_cancel_as_error(t, err, outcome) ==
    [t |-> _error_callback(t, outcome), errored_with |-> outcome]

\* the body of _log_task_completion for a loop task that ended with
\* `outcome`, "cancelled" or the name of its exception: the tracker and
\* _errored_with it leaves, from tracker t and _errored_with err
task_completion(t, err, outcome) ==
    IF outcome = "cancelled"
    THEN [t |-> t, errored_with |-> err]
    ELSE [t |-> _error_callback(t, outcome), errored_with |-> outcome]

\* the loop task is cancelled (shutdown) at whatever await it is suspended
\* in.  Its done callback, which takes the CancelledError clause, runs in
\* the same step.
LoopCancelled ==
    /\ LoopRuns
    /\ aborts < MaxAborts
    /\ aborts' = aborts + 1
    /\ loop_pc' = "cancelled"
    /\ has_requests_in_progress' = [v \in VirtualEngines |-> FALSE]
    /\ done' = {}
    /\ tasks' = [tasks EXCEPT ![starts] = Forget(@)]
    /\ raised_live' = {}
    /\ SetT(task_completion(T, errored_with, "cancelled").t)
    /\ errored_with' = task_completion(T, errored_with, "cancelled").errored_with
    /\ UNCHANGED <<start_engine_loop, pp, starts, callback, engine, consumer,
                   forwarded, log>>

\* _log_task_completion: the done callback of a loop task that ended with
\* an exception
_log_task_completion ==
    /\ callback # "none"
    /\ callback' = "none"
    /\ errored_with' = task_completion(T, errored_with, callback).errored_with
    /\ SetT(task_completion(T, errored_with, callback).t)
    /\ UNCHANGED <<start_engine_loop, pp, starts, loop_pc,
                   has_requests_in_progress, done, tasks, engine, consumer,
                   aborts, historyVars>>


(***************************************************************************)
(* engine_step(virtual_engine), one task per launch.  task.pc:             *)
(*   "created"  not run yet                                                *)
(*   "admit"    drained; suspended in add_request_async for Head(new)      *)
(*   "exec"     suspended in execute_model_async with `batch`              *)
(*   "done"     returned `result`;  "raised"  ended with exception `exc`   *)
(* task.aborted: the step has called _engine_abort (with task.fin, the     *)
(* finished set of its drain).                                             *)
(* A step state is [t, eng, task]: the tracker, the engine and the task.   *)
(***************************************************************************)
Min(S) == CHOOSE x \in S : \A y \in S : x <= y

RECURSIVE Ascending(_)
Ascending(S) == IF S = {} THEN <<>> ELSE <<Min(S)>> \o Ascending(S \ {Min(S)})

\* `for request_output in request_outputs: process_request_output(...)`
\* from index i on; a KeyError ends the loop and the step
RECURSIVE ProcessOutputs(_, _, _)
ProcessOutputs(t, outs, i) ==
    IF i > Len(outs) THEN [raised |-> "none", t |-> t]
    ELSE LET r == process_request_output(t, outs[i])
         IN  IF r.raised # "none" THEN r ELSE ProcessOutputs(r.t, outs, i + 1)

\* engine_step that enters step_async before the cancellation path
AbortAndSchedule_schedule_first(st, v) ==
    LET aborted == st.task.fin # {}
        batch == schedule(st.eng, v)
    IN  [t |-> st.t,
         eng |-> IF aborted
                 THEN engine_abort_request(st.eng, st.task.fin, st.t.streams)
                 ELSE st.eng,
         task |-> IF batch = {}
                  THEN [NoTask EXCEPT !.pc = "done", !.aborted = aborted,
                                      !.result = FALSE]
                  ELSE [NoTask EXCEPT !.pc = "exec", !.aborted = aborted,
                                      !.batch = batch]]

\* step_async that calls execute_model_async whatever the batch is
AbortAndSchedule_always_executes(st, v) ==
    LET aborted == st.task.fin # {}
        eng == IF aborted
               THEN engine_abort_request(st.eng, st.task.fin, st.t.streams)
               ELSE st.eng
    IN  [t |-> st.t, eng |-> eng,
         task |-> [NoTask EXCEPT !.pc = "exec", !.aborted = aborted,
                                 !.batch = schedule(eng, v)]]

\* the rest of engine_step once every new request has been forwarded: the
\* cancellation path (`aborted`: _engine_abort was called), then step_async
\* up to execute_model_async; an empty batch makes no compute call, its
\* outputs are processed from an empty list and the step returns False
AbortAndSchedule(st, v) ==
    LET aborted == st.task.fin # {}
        eng == IF aborted
               THEN engine_abort_request(st.eng, st.task.fin, st.t.streams)
               ELSE st.eng
        batch == schedule(eng, v)
    IN  [t |-> st.t, eng |-> eng,
         task |-> IF batch = {}
                  THEN [NoTask EXCEPT !.pc = "done", !.aborted = aborted,
                                      !.result = FALSE]
                  ELSE [NoTask EXCEPT !.pc = "exec", !.aborted = aborted,
                                      !.batch = batch]]

\* the first slice: drain the tracker; with nothing new go on at once
StepDrain(t, eng, v) ==
    LET d == get_new_and_finished_requests(t)
        st == [t |-> d.t, eng |-> eng,
               task |-> [NoTask EXCEPT !.pc = "admit", !.new = d.new, !.fin = d.fin]]
    IN  IF d.new = <<>> THEN AbortAndSchedule(st, v) ELSE st

\* add_request_async for Head(new) completes: admitted into virtual engine w,
\* or (w = 0) a ValueError that engine_step hands to process_exception
StepAdmitted(t, eng, task, v, w) ==
    LET sid == Head(task.new)
        rid == t.streams[sid].request_id
        r == IF w = 0 THEN process_exception(t, rid, "ValueError")
             ELSE [raised |-> "none", t |-> t]
        st == [t |-> r.t,
               eng |-> IF w = 0 THEN eng ELSE [eng EXCEPT ![sid] = [ve |-> w, n |-> 0]],
               task |-> [task EXCEPT !.new = Tail(@)]]
    IN  IF r.raised # "none"
        THEN [st EXCEPT !.task = [NoTask EXCEPT !.pc = "raised", !.exc = r.raised]]
        ELSE IF st.task.new = <<>> THEN AbortAndSchedule(st, v) ELSE st

\* execute_model_async returns: one output per request of the batch the
\* engine still holds, those in F finished; the outputs go to the tracker
StepExecuted(t, eng, task, v, F) ==
    LET alive == {sid \in task.batch : eng[sid].ve = v}
        outs == [i \in 1..Cardinality(alive) |->
                    LET sid == Ascending(alive)[i]
                    IN  RequestOutput(t.streams[sid].request_id, eng[sid].n + 1,
                                      sid \in F)]
        r == ProcessOutputs(t, outs, 1)
    IN  [t |-> r.t,
         eng |-> [sid \in StreamIds |->
                     IF sid \in alive
                     THEN [ve |-> IF sid \in F THEN 0 ELSE v, n |-> eng[sid].n + 1]
                     ELSE eng[sid]],
         task |-> IF r.raised # "none"
                  THEN [NoTask EXCEPT !.pc = "raised", !.exc = r.raised]
                  ELSE [NoTask EXCEPT !.pc = "done", !.result = (alive # {})]]

\* the streams in the live mapping of t that are not finished
LiveUnfinished(t) ==
    {sid \in 1..Len(t.streams) :
        /\ t.request_streams[t.streams[sid].request_id] = sid
        /\ ~t.streams[sid].finished}

\* a slice of task g, v ends in step state st
StepTo(g, v, st) ==
    /\ SetT(st.t)
    /\ engine' = st.eng
    /\ tasks' = [tasks EXCEPT ![g][v] =
                    IF TaskDone(st.task) /\ ~(g = starts /\ LoopRuns)
                    THEN NoTask ELSE st.task]
    /\ raised_live' = IF st.task.pc = "raised" /\ g = starts /\ LoopRuns
                      THEN raised_live \cup LiveUnfinished(st.t)
                      ELSE raised_live

StepStarts(g, v) ==
    /\ tasks[g][v].pc = "created"
    /\ \E st \in {StepDrain(T, engine, v)} : StepTo(g, v, st)
    /\ forwarded' = forwarded \cup Range(get_new_and_finished_requests(T).new)
    /\ UNCHANGED <<start_engine_loop, pp, starts, loopVars, errored_with,
                   consumer, aborts, log>>

StepAdmits(g, v) ==
    /\ tasks[g][v].pc = "admit"
    /\ \E w \in 0..pp : \E st \in {StepAdmitted(T, engine, tasks[g][v], v, w)} :
          StepTo(g, v, st)
    /\ UNCHANGED <<start_engine_loop, pp, starts, loopVars, errored_with,
                   consumer, aborts, forwarded, log>>

StepExecutes(g, v) ==
    /\ tasks[g][v].pc = "exec"
    /\ LET alive == {sid \in tasks[g][v].batch : engine[sid].ve = v}
       IN  \E F \in SUBSET alive :
              /\ \A sid \in alive : engine[sid].n + 1 >= MaxOutputs => sid \in F
              /\ \E st \in {StepExecuted(T, engine, tasks[g][v], v, F)} :
                    StepTo(g, v, st)
    /\ UNCHANGED <<start_engine_loop, pp, starts, loopVars, errored_with,
                   consumer, aborts, forwarded, log>>

\* execute_model_async raises
StepExecuteFails(g, v) ==
    /\ tasks[g][v].pc = "exec"
    /\ StepTo(g, v, [t |-> T, eng |-> engine,
                     task |-> [NoTask EXCEPT !.pc = "raised", !.exc = "EngineError"]])
    /\ UNCHANGED <<start_engine_loop, pp, starts, loopVars, errored_with,
                   consumer, aborts, forwarded, log>>

(***************************************************************************)
(* The system.  Request ids are interchangeable: callers take a new id     *)
(* only when every smaller one is in use.                                  *)
(***************************************************************************)
CallerIds ==
    {r \in RequestIds :
        \A q \in 1..(r - 1) : \E sid \in 1..Len(streams) : streams[sid].request_id = q}

Next ==
    \/ start_background_loop
    \/ \E r \in CallerIds : Generate(r)
    \/ \E r \in CallerIds : Abort(r)
    \/ \E sid \in 1..Len(streams) : ConsumerNext(sid)
    \/ \E sid \in 1..Len(streams) : ConsumerCancel(sid)
    \/ LoopPauses
    \/ LoopIdle
    \/ LoopWake
    \/ LoopWaitReturns
    \/ LoopHandlesDone
    \/ LoopTimesOut
    \/ LoopCancelled
    \/ _log_task_completion
    \/ \E g \in 1..starts, v \in 1..pp : StepStarts(g, v)
    \/ \E g \in 1..starts, v \in 1..pp : StepAdmits(g, v)
    \/ \E g \in 1..starts, v \in 1..pp : StepExecutes(g, v)
    \/ \E g \in 1..starts, v \in 1..pp : StepExecuteFails(g, v)

Spec == Init /\ [][Next]_vars

\* The system in the runs without a cancellation event (no abort call, no
\* cancelled caller, no cancelled loop task), under the scheduling asyncio
\* provides: a task that is ready runs (the loop task, its done callback, a
\* step task that was created), and the engine answers every call (an
\* admission completes, a compute call returns or raises).  Callers and the
\* timeout are under no obligation.
NextLive ==
    \/ start_background_loop
    \/ \E r \in CallerIds : Generate(r)
    \/ \E sid \in 1..Len(streams) : ConsumerNext(sid)
    \/ LoopPauses
    \/ LoopIdle
    \/ LoopWake
    \/ LoopWaitReturns
    \/ LoopHandlesDone
    \/ LoopTimesOut
    \/ _log_task_completion
    \/ \E g \in 1..starts, v \in 1..pp : StepStarts(g, v)
    \/ \E g \in 1..starts, v \in 1..pp : StepAdmits(g, v)
    \/ \E g \in 1..starts, v \in 1..pp : StepExecutes(g, v)
    \/ \E g \in 1..starts, v \in 1..pp : StepExecuteFails(g, v)

Fairness ==
    /\ WF_vars(LoopPauses)
    /\ WF_vars(LoopIdle)
    /\ WF_vars(LoopWake)
    /\ WF_vars(LoopWaitReturns)
    /\ WF_vars(LoopHandlesDone)
    /\ WF_vars(_log_task_completion)
    /\ \A g \in 1..MaxStarts, v \in VirtualEngines :
          /\ WF_vars(StepStarts(g, v))
          /\ WF_vars(StepAdmits(g, v))
          /\ WF_vars(StepExecuteFails(g, v) \/ StepExecutes(g, v))

SpecLive == Init /\ [][NextLive]_vars /\ Fairness

\* no submission has used request_id
Unused(request_id) ==
    \A sid \in 1..Len(streams) : streams[sid].request_id # request_id

\* The life of one loop task that is not cancelled, with
\* callers that take a new request id for every submission and may abort:
\* nothing is followed beyond the end of the loop task, and the iteration
\* of the callers over their streams is left out (it reads the streams and
\* calls _abort only for a stream that is finished already).
NextOneLoop ==
    \/ ~LoopTaskDone /\ start_background_loop /\ starts' <= 1
    \/ \E r \in CallerIds :
          ~LoopTaskDone /\ Unused(r) /\ Generate(r) /\ starts' <= 1
    \/ \E r \in RequestIds : ~LoopTaskDone /\ Abort(r)
    \/ LoopPauses
    \/ LoopIdle
    \/ LoopWake
    \/ LoopWaitReturns
    \/ LoopHandlesDone
    \/ LoopTimesOut
    \/ \E v \in 1..pp : ~LoopTaskDone /\ StepStarts(1, v)
    \/ \E v \in 1..pp : ~LoopTaskDone /\ StepAdmits(1, v)
    \/ \E v \in 1..pp : ~LoopTaskDone /\ StepExecutes(1, v)
    \/ \E v \in 1..pp : ~LoopTaskDone /\ StepExecuteFails(1, v)

\* asyncio runs every task that is ready and the engine answers every call
FairnessOneLoop ==
    /\ WF_vars(LoopPauses)
    /\ WF_vars(LoopIdle)
    /\ WF_vars(LoopWake)
    /\ WF_vars(LoopWaitReturns)
    /\ WF_vars(LoopHandlesDone)
    /\ \A v \in VirtualEngines :
          /\ WF_vars(StepStarts(1, v))
          /\ WF_vars(StepAdmits(1, v))
          /\ WF_vars(StepExecuteFails(1, v) \/ StepExecutes(1, v))

SpecOneLoop == Init /\ [][NextOneLoop]_vars /\ FairnessOneLoop

\* asyncio runs every task that is ready, the timeout of asyncio.wait
\* elapses when the wait lasts, and the engine answers every admission; a
\* compute call need not return
FairnessWedged ==
    /\ WF_vars(LoopPauses)
    /\ WF_vars(LoopIdle)
    /\ WF_vars(LoopWake)
    /\ WF_vars(LoopWaitReturns)
    /\ WF_vars(LoopHandlesDone)
    /\ WF_vars(LoopTimesOut)
    /\ \A v \in VirtualEngines :
          /\ WF_vars(StepStarts(1, v))
          /\ WF_vars(StepAdmits(1, v))

SpecWedged == Init /\ [][NextOneLoop]_vars /\ FairnessWedged

(***************************************************************************)
(* AsyncStream alone: a producer calls put and finish in any order, one    *)
(* consumer iterates.  log records the calls:                              *)
(*   op, before   the producer's last call and the stream before it        *)
(*   puts         the items put before the first finish                    *)
(*   calls        [put, finish]: the number of calls of each so far        *)
(*   yielded      the items __anext__ has returned                         *)
(*   end, exc     how the iteration ended                                  *)
(***************************************************************************)
InitStream ==
    /\ streams = <<AsyncStream(1)>>
    /\ EmptyTracker
    /\ start_engine_loop = FALSE
    /\ pp = 1
    /\ NotStarted
    /\ log = [op |-> "none", before |-> AsyncStream(1), puts |-> <<>>,
              calls |-> [put |-> 0, finish |-> 0], yielded |-> <<>>,
              end |-> "none", exc |-> "none"]

\* what a producer may put: the next result, or an exception object
PutItems ==
    {RequestOutput(1, log.calls.put + 1, FALSE), ExceptionItem("ValueError")}

StreamPut(item) ==
    /\ log.calls.put < MaxPuts
    /\ streams' = [streams EXCEPT ![1] = put(@, item)]
    /\ log' = [log EXCEPT !.op = "put", !.before = streams[1],
                          !.calls.put = @ + 1,
                          !.puts = IF log.calls.finish = 0 THEN Append(@, item) ELSE @]
    /\ UNCHANGED <<request_streams, finished_requests, new_requests,
                   new_requests_event, forwarded, facadeVars>>

StreamFinish ==
    /\ log.calls.finish < MaxFinishes
    /\ streams' = [streams EXCEPT ![1] = finish(@)]
    /\ log' = [log EXCEPT !.op = "finish", !.before = streams[1],
                          !.calls.finish = @ + 1]
    /\ UNCHANGED <<request_streams, finished_requests, new_requests,
                   new_requests_event, forwarded, facadeVars>>

\* one __anext__ of `async for`: the consumer has dequeued one item per
\* yield so far
StreamNext ==
    /\ log.end = "none"
    /\ LET r == anext(streams[1], Len(log.yielded))
       IN  /\ r.res # "block"
           /\ log' = IF r.res = "yield"
                     THEN [log EXCEPT !.yielded = Append(@, r.item)]
                     ELSE [log EXCEPT !.end = r.res, !.exc = r.item.exc]
    /\ UNCHANGED <<trackerVars, forwarded, facadeVars>>

NextStream ==
    \/ \E item \in PutItems : StreamPut(item)
    \/ StreamFinish
    \/ StreamNext

SpecStream == InitStream /\ [][NextStream]_vars

(***************************************************************************)
(* RequestTracker alone: its methods are called in any order, as the       *)
(* callers and the steps of a running loop call them.  log records the     *)
(* last call:                                                              *)
(*   op, request_id  the method and its request id (0: none)               *)
(*   raised          the exception it raised, or "none"                    *)
(*   new             the new requests a drain returned                     *)
(*   finished        the finished flag of the output handed over           *)
(*   before          the tracker before the call                           *)
(*   prev            op and request_id of the call before it               *)
(***************************************************************************)
InitTracker ==
    /\ streams = <<>>
    /\ EmptyTracker
    /\ start_engine_loop = FALSE
    /\ pp = 1
    /\ NotStarted
    /\ log = [op |-> "none", request_id |-> 0, raised |-> "none", new |-> <<>>,
              finished |-> FALSE, before |-> RequestTracker(<<>>),
              prev |-> [op |-> "none", request_id |-> 0]]

\* the tracker becomes r.t after the call op(request_id), which raised r.raised
CalledWith(op, request_id, r, new, fin) ==
    /\ SetT(r.t)
    /\ log' = [op |-> op, request_id |-> request_id, raised |-> r.raised,
               new |-> new, finished |-> fin, before |-> T,
               prev |-> [op |-> log.op, request_id |-> log.request_id]]
    /\ forwarded' = forwarded \cup Range(new)
    /\ UNCHANGED facadeVars

Called(op, request_id, r, new) == CalledWith(op, request_id, r, new, FALSE)

\* _process_request up to its try block, the loop running: a KeyError of
\* add_request leaves the generator, nothing else is called
TrackerAddRequest(request_id) ==
    /\ Len(streams) < MaxStreams
    /\ Called("add_request", request_id, add_request(T, request_id), <<>>)

TrackerAbortRequest(request_id) ==
    /\ Len(finished_requests) < MaxBuffered
    /\ Called("abort_request", request_id,
              [raised |-> "none", t |-> abort_request(T, request_id)], <<>>)

\* a step hands over the next output of a request it believes to be running
TrackerProcessRequestOutput(request_id, fin) ==
    /\ Len(finished_requests) < MaxBuffered
    /\ Contains(T, request_id) => Len(LiveStream(T, request_id).queue) <= MaxOutputs
    /\ LET n == IF Contains(T, request_id)
                THEN Len(LiveStream(T, request_id).queue) + 1 ELSE 1
       IN  CalledWith("process_request_output", request_id,
                      process_request_output(T, RequestOutput(request_id, n, fin)),
                      <<>>, fin)

TrackerProcessException(request_id) ==
    /\ Len(finished_requests) < MaxBuffered
    /\ Contains(T, request_id) => Len(LiveStream(T, request_id).queue) <= MaxOutputs
    /\ Called("process_exception", request_id,
              process_exception(T, request_id, "ValueError"), <<>>)

TrackerPropagateException ==
    /\ Len(finished_requests) < MaxBuffered
    /\ \A r \in RequestIds :
          Contains(T, r) => Len(LiveStream(T, r).queue) <= MaxOutputs
    /\ Called("propagate_exception", 0,
              [raised |-> "none", t |-> propagate_exception(T, "EngineError")], <<>>)

\* propagate_exception(exc, request_id)
TrackerPropagateExceptionTo(request_id) ==
    /\ Len(finished_requests) < MaxBuffered
    /\ Contains(T, request_id) => Len(LiveStream(T, request_id).queue) <= MaxOutputs
    /\ Called("propagate_exception", request_id,
              propagate_exception_to(T, "EngineError", request_id), <<>>)

TrackerDrain ==
    LET d == get_new_and_finished_requests(T)
    IN  Called("get_new_and_finished_requests", 0,
               [raised |-> "none", t |-> d.t], d.new)

NextTracker ==
    \/ \E r \in RequestIds : TrackerAddRequest(r)
    \/ \E r \in RequestIds : TrackerAbortRequest(r)
    \/ \E r \in RequestIds, fin \in BOOLEAN : TrackerProcessRequestOutput(r, fin)
    \/ \E r \in RequestIds : TrackerProcessException(r)
    \/ TrackerPropagateException
    \/ \E r \in RequestIds : TrackerPropagateExceptionTo(r)
    \/ TrackerDrain

SpecTracker == InitTracker /\ [][NextTracker]_vars

(***************************************************************************)
(* Properties of AsyncStream, checked under SpecStream.                    *)
(***************************************************************************)
\* the items of a put sequence in front of its first exception object
RECURSIVE UpToFirstException(_)
UpToFirstException(seq) ==
    IF seq = <<>> \/ seq[1].kind = "exc" THEN <<>>
    ELSE <<seq[1]>> \o UpToFirstException(Tail(seq))

\* the exception objects of a put sequence, in put order
Exceptions(seq) == SelectSeq(seq, LAMBDA item : item.kind = "exc")

IsPrefix(a, b) == Len(a) <= Len(b) /\ a = SubSeq(b, 1, Len(a))

\* C8, as the code has it: the consumer of a stream yields, in put order, the
\* items that were put before finish() up to the first exception object among
\* them, and nothing else; it then ends by raising that exception object, or
\* cleanly at the marker when no exception object was put; once finish() has
\* been called the consumer never blocks again; a put after finish() leaves
\* the stream as it was.
C8_YieldsUpToFirstException ==
    /\ IsPrefix(log.yielded, UpToFirstException(log.puts))
    /\ log.end # "none" => log.yielded = UpToFirstException(log.puts)
    /\ log.end = "raise" =>
          /\ Exceptions(log.puts) # <<>>
          /\ log.exc = Exceptions(log.puts)[1].exc
    /\ log.end = "stop" => Exceptions(log.puts) = <<>> /\ log.calls.finish > 0
    /\ (log.calls.finish > 0 /\ log.end = "none") =>
          anext(streams[1], Len(log.yielded)).res # "block"
    /\ (log.op = "put" /\ log.before.finished) => streams[1] = log.before

\* a consumer has raised the exception object that was put in front of a
\* result, and a put after finish() has been made
C8_Witness ==
    /\ log.end = "raise"
    /\ Len(UpToFirstException(log.puts)) + 1 < Len(log.puts)
    /\ log.op = "put" /\ log.before.finished

\* C8, as the specification states it: a consumer that has ended has yielded
\* every item put before finish(), in put order, and has raised exactly when
\* an exception object was put.
C8_YieldsEveryPutItem ==
    log.end # "none" =>
        /\ log.yielded = SelectSeq(log.puts, LAMBDA item : item.kind = "out")
        /\ (log.end = "raise") = (Exceptions(log.puts) # <<>>)

\* C9: a second finish() leaves the stream as the first one left it: the
\* flag is set and the queue holds the same items, with one marker.
C9_FinishIdempotent ==
    (log.op = "finish" /\ log.before.finished) =>
        /\ streams[1].finished
        /\ streams[1].queue = log.before.queue
        /\ Len(SelectSeq(streams[1].queue,
                         LAMBDA item : item = StopAsyncIteration)) = 1

(***************************************************************************)
(* Properties of RequestTracker, checked under SpecTracker.                *)
(***************************************************************************)
\* the number of terminal markers and of other items in a queue
Markers(q) == Len(SelectSeq(q, LAMBDA item : item.kind = "stop"))

NormalItems(q) == Len(SelectSeq(q, LAMBDA item : item.kind # "stop"))

\* stream sid was waiting in _new_requests of tracker t with its id buffered
\* in _finished_requests: it was added and aborted with no drain in between
AbortedWhilePending(t, sid) ==
    /\ sid \in Range(t.new_requests)
    /\ t.streams[sid].request_id \in Range(t.finished_requests)

\* C1: a request that is added and aborted before the next drain is not among
\* the new requests that drain returns, its stream is not inserted into the
\* live mapping, and the stream holds no normal item and exactly one terminal
\* marker from that drain on.
C1_AbortedBeforeDrainNeverForwarded ==
    \A sid \in 1..Len(streams) :
        LET rid == streams[sid].request_id
        IN  /\ (log.op = "get_new_and_finished_requests"
                /\ AbortedWhilePending(log.before, sid)) =>
                    /\ sid \notin Range(log.new)
                    /\ request_streams[rid] # sid
                    /\ streams[sid].finished
            /\ (sid \notin Range(new_requests) /\ sid \notin forwarded) =>
                    /\ request_streams[rid] # sid
                    /\ NormalItems(streams[sid].queue) = 0
                    /\ Markers(streams[sid].queue) = 1

\* a drain has just dropped a request that was added and then aborted
C1_Witness ==
    /\ log.op = "get_new_and_finished_requests"
    /\ log.prev.op = "abort_request"
    /\ \E sid \in 1..Len(streams) :
          /\ AbortedWhilePending(log.before, sid)
          /\ sid \notin forwarded
          /\ streams[sid].queue = <<StopAsyncIteration>>

\* C7: add_request with an id of the live mapping raises KeyError and leaves
\* the tracker (streams, live mapping, both buffers, event) as it was; so
\* the failed generate / encode call has not aborted the existing request.
C7_DuplicateAddChangesNothing ==
    (log.op = "add_request" /\ Contains(log.before, log.request_id)) =>
        /\ log.raised = "KeyError"
        /\ T = log.before

\* add_request was refused for the id of a live, unfinished stream
C7_Witness ==
    /\ log.op = "add_request"
    /\ log.raised = "KeyError"
    /\ request_streams[log.request_id] # 0
    /\ ~streams[request_streams[log.request_id]].finished

\* C10: a second abort_request of an id right after the first leaves every
\* stream and the live mapping as the first left them, and the next drain
\* returns the same finished set and the same new requests, and leaves the
\* same tracker behind.
C10_AbortRequestIdempotent ==
    (/\ log.op = "abort_request"
     /\ log.prev = [op |-> "abort_request", request_id |-> log.request_id]) =>
        /\ streams = log.before.streams
        /\ request_streams = log.before.request_streams
        /\ get_new_and_finished_requests(T)
             = get_new_and_finished_requests(log.before)

\* the second of two abort_request calls in a row has hit a live stream,
\* which the first had finished
C10_Witness ==
    /\ log.op = "abort_request"
    /\ log.prev = [op |-> "abort_request", request_id |-> log.request_id]
    /\ request_streams[log.request_id] # 0
    /\ Markers(streams[request_streams[log.request_id]].queue) = 1

(***************************************************************************)
(* Properties of the whole system, checked under Spec.                     *)
(***************************************************************************)
\* C2: once the exception of a step has been handled (the loop task has ended
\* with it and its done callback has run), every stream that was in the live
\* mapping and unfinished when the step raised has been terminated: it has
\* received the exception and the terminal marker, unless somebody else
\* finished it in between.
C2_LiveStreamsReceiveStepException ==
    (errored /\ callback = "none") =>
        \A sid \in raised_live : streams[sid].finished

\* the loop task has ended with the exception of a step, whether or not its
\* done callback has run
StepFailureKilledLoop ==
    \/ loop_pc = "failed" /\ callback \notin {"none", "TimeoutError"}
    \/ errored_with \notin {"none", "TimeoutError"}

\* C3: after the loop task has ended with the exception of a step, add_request,
\* abort and check_health all raise AsyncEngineDeadError, before and after
\* the done callback of the loop task has run.
C3_DeadAfterStepFailure ==
    StepFailureKilledLoop =>
        /\ \A r \in RequestIds : AddRequestOutcome(r) = "AsyncEngineDeadError"
        /\ abort_result = "AsyncEngineDeadError"
        /\ check_health_result = "AsyncEngineDeadError"

\* a fatal error has been recorded and handled, and nothing runs any more:
\* the loop task is done, its callback has run, every step task is over
FatalErrorSettled ==
    /\ errored
    /\ callback = "none"
    /\ ~is_running
    /\ \A g \in 1..MaxStarts, v \in VirtualEngines :
          tasks[g][v].pc \notin {"created", "admit", "exec"}

\* C4: when a fatal error has settled, no caller is left waiting on a stream
\* that holds neither an exception nor a terminal marker for it.
C4_NoCallerBlockedAfterFatalError ==
    FatalErrorSettled =>
        \A sid \in 1..Len(streams) :
            consumer[sid] = "iter" => EndOf(streams[sid].queue, 0).res # "block"

\* the number of times request_id is buffered in _finished_requests
Buffered(request_id) ==
    Cardinality({i \in 1..Len(finished_requests) : finished_requests[i] = request_id})

C6_NoOrphanAfterCallerAbort ==
    \A sid \in 1..Len(streams) :
        (consumer[sid] = "cancelled" /\ engine[sid].ve # 0 /\ is_running) =>
            \/ streams[sid].request_id \in Range(finished_requests)
            \/ \E g \in 1..MaxStarts, v \in VirtualEngines :
                  /\ tasks[g][v].pc = "admit"
                  /\ streams[sid].request_id \in tasks[g][v].fin

\* C11: in every step of the system a stream that is finished keeps its
\* queue and its flag, and afterwards every stream's queue holds at most one
\* terminal marker, as its last element, and holds one exactly when the stream
\* is finished.
C11_FinishedStreamIsFrozen ==
    [][\A sid \in 1..Len(streams) :
          /\ streams[sid].finished => streams'[sid] = streams[sid]
          /\ Markers(streams'[sid].queue) <= 1
          /\ streams'[sid].finished = (Markers(streams'[sid].queue) = 1)
          /\ Markers(streams'[sid].queue) = 1 =>
                streams'[sid].queue[Len(streams'[sid].queue)] = StopAsyncIteration]_vars

\* a stream that was finished after its output has been hit by a second
\* abort_request, which found it finished
C11_Witness ==
    \E sid \in 1..Len(streams) :
        /\ streams[sid].finished
        /\ Len(streams[sid].queue) = 2
        /\ Buffered(streams[sid].request_id) = 2

\* C12: whenever a step's suspended admission completes, no stream other than
\* the one being admitted changes, the step does not end with an exception,
\* and if the stream being admitted changes (the admission raised a
\* ValueError) it receives exactly that exception and is finalized.
C12_ValidationFailureIsRequestScoped ==
    [][\A g \in 1..starts, v \in 1..pp :
          (tasks[g][v].pc = "admit" /\ tasks'[g][v] # tasks[g][v]) =>
             LET sid == Head(tasks[g][v].new)
             IN  /\ \A s \in 1..Len(streams) : s # sid => streams'[s] = streams[s]
                 /\ tasks'[g][v].pc # "raised"
                 /\ streams'[sid] # streams[sid] =>
                       /\ streams'[sid].finished
                       /\ streams'[sid].queue =
                             streams[sid].queue \o
                                <<ExceptionItem("ValueError"), StopAsyncIteration>>]_vars

\* C13: when the iteration timeout ends the loop task, the timeout is recorded
\* as the facade's error in the same step and the callback is scheduled with
\* it; from then on the facade stays errored, the loop task stays ended, no
\* loop is started, no step task is launched; and the callback puts the
\* timeout into every live unfinished stream and finalizes it.
C13_TimeoutKillsLoopAndReachesLiveStreams ==
    [][/\ (loop_pc # "failed" /\ loop_pc' = "failed" /\ callback' = "TimeoutError") =>
             errored_with' = "TimeoutError"
       /\ callback = "TimeoutError" => errored_with = "TimeoutError"
       /\ errored_with = "TimeoutError" =>
             /\ loop_pc = "failed" /\ loop_pc' = "failed"
             /\ errored_with' = "TimeoutError"
             /\ starts' = starts
             /\ \A g \in 1..starts, v \in 1..pp :
                   tasks'[g][v].pc = "created" => tasks[g][v].pc = "created"
       /\ (callback = "TimeoutError" /\ callback' = "none") =>
             \A sid \in LiveUnfinished(T) :
                /\ streams'[sid].finished
                /\ streams'[sid].queue =
                      streams[sid].queue \o
                         <<ExceptionItem("TimeoutError"), StopAsyncIteration>>]_vars

\* the callback has put the timeout into a live stream and finalized it,
\* while a step of the dead loop is still suspended in the engine
C13_Witness ==
    /\ errored_with = "TimeoutError"
    /\ callback = "none"
    /\ \E sid \in 1..Len(streams) :
          /\ Len(streams[sid].queue) >= 2
          /\ streams[sid].queue[Len(streams[sid].queue) - 1] = ExceptionItem("TimeoutError")
    /\ \E v \in 1..pp : tasks[starts][v].pc \in {"admit", "exec"}

\* C14: the step in which the loop task is cancelled leaves the facade's
\* error, every stream and the tracker as they are and schedules no error
\* callback; while the loop task is cancelled the facade's error does not
\* change and no error callback is pending.
C14_CancellationIsNotAnError ==
    [][/\ (loop_pc # "cancelled" /\ loop_pc' = "cancelled") =>
             /\ errored_with' = errored_with
             /\ callback' = "none"
             /\ UNCHANGED trackerVars
       /\ loop_pc = "cancelled" =>
             /\ callback = "none"
             /\ errored_with' = errored_with]_vars

\* the loop task was cancelled while a request was live: the facade is not
\* errored and the request's stream holds no exception
C14_Witness ==
    /\ loop_pc = "cancelled"
    /\ errored_with = "none"
    /\ \E sid \in LiveUnfinished(T) : Exceptions(streams[sid].queue) = <<>>

\* the stream the caller of submission sid should have seen so far: the
\* outputs the engine produced for it, in order, closed by the terminal
\* marker once the engine has finished it
ProducedFor(sid) ==
    [i \in 1..engine[sid].n |->
        RequestOutput(streams[sid].request_id, i,
                      i = engine[sid].n /\ engine[sid].ve = 0)]
    \o (IF engine[sid].ve = 0 THEN <<StopAsyncIteration>> ELSE <<>>)

\* C15: while the first loop is alive, no step has raised and nothing has
\* been cancelled or aborted, the stream of every submission the engine has
\* admitted holds exactly the outputs the engine produced for that
\* submission, in the engine's order, followed by the terminal marker once
\* the engine has produced the finished output.
C15_StreamHoldsWhatTheEngineProduced ==
    (/\ is_running /\ starts = 1 /\ ~errored /\ aborts = 0
     /\ \A v \in 1..pp : tasks[1][v].pc # "raised") =>
        \A sid \in 1..Len(streams) :
           (engine[sid].ve # 0 \/ engine[sid].n > 0) =>
              streams[sid].queue = ProducedFor(sid)

\* the loop is suspended in new_requests_event.wait() with the event clear
\* and no step task is left to run: only add_request, which sets the event,
\* can make a step (and with it a drain) happen
Quiescent ==
    /\ LoopRuns
    /\ loop_pc = "parked"
    /\ ~new_requests_event
    /\ \A g \in 1..starts, v \in 1..pp : tasks[g][v].pc \notin {"created", "admit", "exec"}

\* C16: a request that has finished, was aborted or failed validation does
\* not stay in the live mapping waiting for a further submission: when only
\* a submission can make the loop step again, every request of the live
\* mapping is unfinished.
C16_FinishedRequestsEvictedWithoutSubmission ==
    Quiescent =>
       \A rid \in RequestIds :
          request_streams[rid] # 0 => ~streams[request_streams[rid]].finished

\* C17: under the scheduling of SpecLive, a submission that is buffered in
\* the new-request queue while the loop runs is later taken out of the queue
\* by a drain, unless the loop task ends first; and a step that starts with
\* nothing buffered and an engine that holds nothing for it changes neither
\* tracker nor engine and returns False.
C17_BufferedSubmissionIsDrained ==
    /\ \A sid \in StreamIds :
          (is_running /\ sid \in Range(new_requests))
             ~> (~is_running \/ sid \notin Range(new_requests))
    /\ [][\A g \in 1..starts, v \in 1..pp :
            (/\ tasks[g][v].pc = "created" /\ tasks'[g][v] # tasks[g][v]
             /\ new_requests = <<>> /\ finished_requests = <<>>
             /\ schedule(engine, v) = {}) =>
               /\ UNCHANGED <<streams, request_streams, finished_requests,
                              new_requests, engine>>
               /\ tasks'[g][v].pc \in {"done", "none"}
               /\ ~tasks'[g][v].result]_vars

\* a second submission arrived while the loop was suspended in
\* new_requests_event.wait() after it had served the first one
C17_Witness ==
    /\ LoopRuns
    /\ loop_pc = "parked"
    /\ new_requests = <<2>>
    /\ new_requests_event
    /\ 1 \in forwarded

\* C18: in every state where the facade has errored start_background_loop
\* raises AsyncEngineDeadError, and where it has not errored but the loop
\* runs it raises RuntimeError; and no step taken in a state where
\* start_background_loop raises creates a loop task.
C18_FailedStartCreatesNoLoop ==
    [][/\ errored => start_background_loop_result = "AsyncEngineDeadError"
       /\ (~errored /\ is_running) => start_background_loop_result = "RuntimeError"
       /\ start_background_loop_result # "ok" =>
             /\ starts' = starts
             /\ loop_pc = "failed" => loop_pc' = "failed"]_vars

\* the facade has errored after one loop, a second loop could still be
\* started, and the tracker holds a submission that a new tracker would lose
C18_Witness ==
    /\ errored
    /\ ~is_running
    /\ starts < MaxStarts
    /\ new_requests # <<>>

\* C19 as stated: whenever the loop is not running, add_request succeeds if
\* auto-start is enabled and raises AsyncEngineDeadError if it is disabled.
C19_AutoStartAlwaysSucceeds ==
    \A r \in RequestIds :
       ~is_running =>
          AddRequestOutcome(r) = IF start_engine_loop THEN "ok" ELSE "AsyncEngineDeadError"

\* C19, amended: while the loop is not running, add_request raises
\* AsyncEngineDeadError and no step registers a submission if auto-start is
\* disabled or the facade has errored; otherwise add_request succeeds, and a
\* step that registers a submission starts a loop with a fresh tracker whose
\* only content is that submission, buffered with the wake event set.
C19_AddRequestWhenNotRunning ==
    [][~is_running =>
         IF ~start_engine_loop \/ errored
         THEN /\ \A r \in RequestIds : AddRequestOutcome(r) = "AsyncEngineDeadError"
              /\ Len(streams') = Len(streams)
         ELSE /\ \A r \in RequestIds : AddRequestOutcome(r) = "ok"
              /\ Len(streams') # Len(streams) =>
                    /\ starts' = starts + 1
                    /\ loop_pc' = "top"
                    /\ Len(streams') = Len(streams) + 1
                    /\ new_requests' = <<Len(streams')>>
                    /\ new_requests_event'
                    /\ finished_requests' = <<>>
                    /\ \A r \in RequestIds : request_streams'[r] = 0
                    /\ consumer'[Len(streams')] = "iter"]_vars

\* add_request has just started the second loop, after the first one died
\* of a step's exception and before its callback set the error
C19_Witness ==
    /\ start_engine_loop
    /\ starts = 2
    /\ loop_pc = "top"
    /\ new_requests = <<Len(streams)>>
    /\ callback # "none"

\* what becomes of a submission with id q made to tracker t and then
\* drained by the next step
LaterSubmission(t, q) ==
    LET a == add_request(t, q)
    IN  IF a.raised # "none" THEN "refused"
        ELSE IF a.stream \in Range(get_new_and_finished_requests(a.t).new)
             THEN "forwarded" ELSE "dropped"

\* the step is a call abort(r) that reached the tracker
AbortCalled(r) ==
    /\ aborts' = aborts + 1
    /\ consumer' = consumer
    /\ loop_pc' = loop_pc
    /\ finished_requests' = Append(finished_requests, r)

\* C20: abort raises AsyncEngineDeadError whenever the loop is not running;
\* and a call abort(r) made while the loop runs, when every submission with
\* id r has finished, changes no stream and does not change what becomes of
\* a later submission, whatever its id.
C20_AbortOfFinishedRequestIsNoOp ==
    [][/\ ~is_running => abort_result = "AsyncEngineDeadError"
       /\ \A r \in RequestIds :
             (/\ AbortCalled(r)
              /\ \E sid \in 1..Len(streams) : streams[sid].request_id = r
              /\ \A sid \in 1..Len(streams) :
                    streams[sid].request_id = r => streams[sid].finished) =>
                /\ streams' = streams
                /\ \A q \in RequestIds : LaterSubmission(T', q) = LaterSubmission(T, q)]_vars

\* C21: when the loop handles the done set without re-raising, every
\* virtual engine of the set whose step returned True or for which the
\* engine reports unfinished requests gets one new step task and is in
\* progress, every other one of the set keeps its ended task and is idle,
\* and the task and the in-progress flag of every virtual engine outside
\* the set are unchanged.
C21_HandlingRelaunchesOrIdles ==
    [][(loop_pc = "sleep" /\ loop_pc' = "top") =>
          \A v \in 1..pp :
             IF v \in done
             THEN IF tasks[starts][v].result
                     \/ has_unfinished_requests_for_virtual_engine(engine, v)
                  THEN /\ tasks'[starts][v] = Created
                       /\ has_requests_in_progress'[v]
                  ELSE /\ tasks'[starts][v] = tasks[starts][v]
                       /\ ~has_requests_in_progress'[v]
             ELSE /\ tasks'[starts][v] = tasks[starts][v]
                  /\ has_requests_in_progress'[v] = has_requests_in_progress[v]]_vars

\* the loop is about to handle a step that returned False for a virtual
\* engine into which another step has meanwhile admitted a request, while
\* the other virtual engine's step is still outstanding
C21_Witness ==
    /\ LoopRuns
    /\ loop_pc = "sleep"
    /\ \E v \in done :
          /\ tasks[starts][v].pc = "done"
          /\ ~tasks[starts][v].result
          /\ has_unfinished_requests_for_virtual_engine(engine, v)
    /\ \E w \in 1..pp : w \notin done /\ has_requests_in_progress[w]

\* a step task that was launched and has not ended
Outstanding(task) == task.pc \in {"created", "admit", "exec"}

\* C22: after every step of the system each virtual engine has at most one
\* outstanding step task, and a step in which the loop leaves the idle wait
\* (or finds it need not wait) creates one step task for every virtual
\* engine.
C22_OneStepPerVirtualEngine ==
    [][/\ \A v \in 1..pp :
             Cardinality({g \in 1..starts' : Outstanding(tasks'[g][v])}) <= 1
       /\ (/\ LoopRuns /\ starts' = starts /\ loop_pc' = "top"
           /\ \A v \in 1..pp : ~has_requests_in_progress[v]
           /\ \E v \in 1..pp : has_requests_in_progress'[v]) =>
              \A v \in 1..pp : tasks'[starts][v] = Created]_vars

\* C23: whenever the loop is suspended in wait_for_new_requests, no step
\* task is outstanding and the engine holds no unfinished request in the
\* queue of any virtual engine.
C23_ParkedMeansNoWork ==
    loop_pc = "parked" =>
       /\ \A g \in 1..starts, v \in 1..pp : ~Outstanding(tasks[g][v])
       /\ \A v \in 1..pp : ~has_unfinished_requests_for_virtual_engine(engine, v)

\* C24: after a call of get_new_and_finished_requests both buffers are
\* empty; the finished set it returned is the set of the ids that were
\* buffered; none of these ids is in the live mapping; the new requests it
\* returned are the buffered submissions whose id is not in that set, in
\* the order of their submission; the stream of each of them is the one the
\* live mapping holds for its id; the live mapping is otherwise unchanged.
C24_DrainReturnsBuffersAndUpdatesMapping ==
    log.op = "get_new_and_finished_requests" =>
       LET b == log.before
           fin == Range(b.finished_requests)
           new == SelectSeq(b.new_requests,
                            LAMBDA sid : b.streams[sid].request_id \notin fin)
       IN  /\ new_requests = <<>>
           /\ finished_requests = <<>>
           /\ get_new_and_finished_requests(b).fin = fin
           /\ log.new = new
           /\ \A r \in fin : request_streams[r] = 0
           /\ \A i \in 1..Len(new) :
                 request_streams[streams[new[i]].request_id] = new[i]
           /\ \A r \in RequestIds :
                 (r \notin fin /\ \A i \in 1..Len(new) : streams[new[i]].request_id # r) =>
                    request_streams[r] = b.request_streams[r]

\* the stream sid of tracker b after exception exc was put into it and it
\* was finalized
Delivered(b, sid, exc) ==
    [b.streams[sid] EXCEPT !.queue = @ \o <<ExceptionItem(exc), StopAsyncIteration>>,
                           !.finished = TRUE]

\* C25: after propagate_exception(exc, id) that did not raise, the stream
\* the live mapping held for id has received exc and was finalized if it
\* was unfinished, id is buffered as finished, and every other stream is
\* unchanged; after propagate_exception(exc) every stream of the live
\* mapping that was unfinished has received exc and was finalized, the id of
\* every stream of the mapping is buffered as finished, and every other
\* stream is unchanged; in both cases a stream that was finished is
\* unchanged and the live mapping and the new-request buffer are unchanged.
C25_PropagateReachesLiveUnfinishedStreams ==
    (log.op = "propagate_exception" /\ log.raised = "none") =>
       LET b == log.before
           hit == IF log.request_id = 0 THEN LiveUnfinished(b)
                  ELSE LiveUnfinished(b) \cap {b.request_streams[log.request_id]}
           ids == IF log.request_id = 0
                  THEN {r \in RequestIds : b.request_streams[r] # 0}
                  ELSE {log.request_id}
       IN  /\ Len(streams) = Len(b.streams)
           /\ \A sid \in 1..Len(streams) :
                 streams[sid] = IF sid \in hit THEN Delivered(b, sid, "EngineError")
                                ELSE b.streams[sid]
           /\ Range(finished_requests) = Range(b.finished_requests) \cup ids
           /\ Len(finished_requests) = Len(b.finished_requests) + Cardinality(ids)
           /\ request_streams = b.request_streams
           /\ new_requests = b.new_requests

\* propagate_exception(exc) was called with two streams in the live
\* mapping, one of them finished before the call
C25_Witness ==
    /\ log.op = "propagate_exception"
    /\ log.request_id = 0
    /\ \E a, c \in 1..Len(log.before.streams) :
          /\ a \in LiveUnfinished(log.before)
          /\ log.before.request_streams[log.before.streams[c].request_id] = c
          /\ log.before.streams[c].finished

\* C26 as stated: after process_request_output(output) that did not raise,
\* the stream of output.request_id holds the output as its newest result,
\* followed by the terminal marker if the output is finished.
C26_OutputIsAlwaysEnqueued ==
    (log.op = "process_request_output" /\ log.raised = "none") =>
       LET b == log.before
           sid == b.request_streams[log.request_id]
           out == RequestOutput(log.request_id, Len(b.streams[sid].queue) + 1,
                                log.finished)
       IN  streams[sid].queue =
              b.streams[sid].queue \o <<out>>
                 \o (IF log.finished THEN <<StopAsyncIteration>> ELSE <<>>)

\* process_request_output raises KeyError exactly when the live mapping has
\* no stream for the id, and then changes nothing
C26_MissingStreamRaises ==
    log.op = "process_request_output" =>
       /\ (log.raised = "KeyError") = (log.before.request_streams[log.request_id] = 0)
       /\ log.raised \in {"none", "KeyError"}
       /\ log.raised = "KeyError" => T = log.before

\* C26, amended: process_request_output(output) raises KeyError and changes
\* nothing when the live mapping has no stream for output.request_id;
\* otherwise the stream the live mapping holds for that id has the output
\* appended if it was unfinished and is unchanged if it was finished; every
\* other stream, the live mapping and the new-request buffer are unchanged;
\* if the output is finished the stream is finished, with the terminal
\* marker last, and the id is appended to the finished buffer, so that the
\* next drain evicts it; otherwise the stream is finished only if it was
\* before and the finished buffer is unchanged.
C26_OutputReachesUnfinishedLiveStream ==
    /\ C26_MissingStreamRaises
    /\ (log.op = "process_request_output" /\ log.raised = "none") =>
       LET b == log.before
           sid == b.request_streams[log.request_id]
           was == b.streams[sid]
           out == RequestOutput(log.request_id, Len(was.queue) + 1, log.finished)
       IN  /\ sid # 0
           /\ Len(streams) = Len(b.streams)
           /\ \A s \in 1..Len(streams) : s # sid => streams[s] = b.streams[s]
           /\ request_streams = b.request_streams
           /\ new_requests = b.new_requests
           /\ streams[sid].queue =
                 IF was.finished THEN was.queue
                 ELSE was.queue \o <<out>>
                         \o (IF log.finished THEN <<StopAsyncIteration>> ELSE <<>>)
           /\ streams[sid].finished = (was.finished \/ log.finished)
           /\ finished_requests =
                 IF log.finished THEN Append(b.finished_requests, log.request_id)
                 ELSE b.finished_requests
           /\ log.finished =>
                 get_new_and_finished_requests(T).t.request_streams[log.request_id] = 0

\* a finished output was handed over for a stream that held an output
\* already and was unfinished
C26_Witness ==
    /\ log.op = "process_request_output"
    /\ log.raised = "none"
    /\ log.finished
    /\ ~LiveStream(log.before, log.request_id).finished
    /\ Len(LiveStream(log.before, log.request_id).queue) = 1

\* a slice of the step task of virtual engine v of the running loop that
\* starts before the step's cancellation path
BeforeAbortSlice(v) ==
    /\ LoopRuns
    /\ tasks[starts][v].pc \in {"created", "admit"}
    /\ tasks'[starts][v] # tasks[starts][v]

\* the finished set of the drain of the step of virtual engine v
DrainedFinished(v) ==
    IF tasks[starts][v].pc = "created"
    THEN get_new_and_finished_requests(T).fin
    ELSE tasks[starts][v].fin

\* C27: a step of the running loop that still has a new request of its
\* drain to forward, or that raised while forwarding, has not called the
\* engine's cancellation path and no request has left the engine; a step
\* that has forwarded every new request of its drain has called the
\* cancellation path exactly if the finished set of its drain is not empty,
\* the engine has then dropped the requests with an id of that set and no
\* other, and the batch handed to execute_model is scheduled from what the
\* engine holds after that.
C27_AbortAfterAdmissionBeforeSchedule ==
    [][\A v \in VirtualEngines : BeforeAbortSlice(v) =>
          LET next == tasks'[starts][v]
              fin == DrainedFinished(v)
          IN  IF next.pc \in {"admit", "raised"}
              THEN /\ ~next.aborted
                   /\ next.pc = "admit" => next.fin = fin /\ next.new # <<>>
                   /\ \A sid \in StreamIds :
                         engine[sid].ve # 0 => engine'[sid] = engine[sid]
              ELSE /\ next.pc \in {"exec", "done"}
                   /\ next.aborted = (fin # {})
                   /\ \A sid \in StreamIds :
                         IF sid <= Len(streams') /\ streams'[sid].request_id \in fin
                         THEN engine'[sid].ve = 0
                         ELSE engine[sid].ve # 0 => engine'[sid] = engine[sid]
                   /\ next.pc = "exec" =>
                         /\ next.batch = schedule(engine', v)
                         /\ \A sid \in next.batch :
                               streams'[sid].request_id \notin fin]_vars

\* a step that has just forwarded the last new request of its drain has
\* called the cancellation path, the engine has dropped a request it held
\* for a finished id, and the step is in execute_model with the new request
C27_Witness ==
    /\ LoopRuns
    /\ \E v \in 1..pp :
          /\ tasks[starts][v].pc = "exec"
          /\ tasks[starts][v].aborted
          /\ \E sid \in StreamIds :
                /\ sid <= Len(streams)
                /\ engine[sid].ve = 0
                /\ engine[sid].n = 0
                /\ streams[sid].finished
                /\ sid \in forwarded
                /\ sid \notin tasks[starts][v].batch

\* the result items of a queue
ResultsOf(q) == SelectSeq(q, LAMBDA item : item.kind = "out")

\* C28: a step task is in execute_model only with a non-empty batch; a step
\* of the running loop that comes out of schedule() is in execute_model
\* with the batch exactly if what the scheduler of its virtual engine holds
\* is not empty, and otherwise it has completed normally, returning False,
\* without the engine having produced an output and without a stream
\* having received one.
C28_ExecuteIffBatchNonEmpty ==
    /\ [](\A g \in 1..MaxStarts : \A v \in VirtualEngines :
             tasks[g][v].pc = "exec" => tasks[g][v].batch # {})
    /\ [][\A v \in VirtualEngines :
             (BeforeAbortSlice(v) /\ tasks'[starts][v].pc \in {"exec", "done"}) =>
                LET next == tasks'[starts][v]
                    batch == schedule(engine', v)
                IN  IF batch # {}
                    THEN next.pc = "exec" /\ next.batch = batch
                    ELSE /\ next.pc = "done"
                         /\ ~next.result
                         /\ \A sid \in StreamIds : engine'[sid].n = engine[sid].n
                         /\ \A sid \in 1..Len(streams) :
                               ResultsOf(streams'[sid].queue)
                                  = ResultsOf(streams[sid].queue)]_vars

\* of two steps of the running loop, one has returned False from an empty
\* batch while the other is in execute_model
C28_Witness ==
    /\ LoopRuns
    /\ \E v, w \in 1..pp :
          /\ tasks[starts][v].pc = "done"
          /\ ~tasks[starts][v].result
          /\ schedule(engine, v) = {}
          /\ tasks[starts][w].pc = "exec"

\* C29: the loop comes to be suspended in wait_for_new_requests only from
\* the await of the pause notification, it sends the pause notification
\* only from the top of its body with no virtual engine marked in
\* progress, and none is marked in progress while the loop is in either
\* of the two waits.
C29_PauseBeforeParking ==
    /\ [][/\ (loop_pc' = "parked" /\ loop_pc # "parked") =>
                (loop_pc = "pausing" /\ starts' = starts)
          /\ (loop_pc' = "pausing" /\ loop_pc # "pausing") =>
                (/\ loop_pc = "top"
                 /\ starts' = starts
                 /\ \A v \in 1..pp : ~has_requests_in_progress[v])]_vars
    /\ [](loop_pc \in {"pausing", "parked"} =>
             \A v \in VirtualEngines : ~has_requests_in_progress[v])

\* the loop is parked again after its steps have served a request to the end
C29_Witness ==
    /\ LoopRuns
    /\ loop_pc = "parked"
    /\ \E sid \in 1..Len(streams) :
          /\ sid \in forwarded
          /\ engine[sid].n > 0
          /\ streams[sid].finished

\* C30: no step task has ended with the KeyError of a request id that is
\* missing from the live mapping, and the loop has not ended with it.
C30_AbortNeverKillsLoop ==
    /\ \A g \in 1..MaxStarts, v \in VirtualEngines :
          ~(tasks[g][v].pc = "raised" /\ tasks[g][v].exc = "KeyError")
    /\ callback # "KeyError"
    /\ errored_with # "KeyError"

\* the stream sid is held by the tracker: buffered as a new request or the
\* value of its id in the live mapping
HeldByTracker(sid) ==
    \/ sid \in Range(new_requests)
    \/ request_streams[streams[sid].request_id] = sid

\* C31: no two unfinished streams of one request id are held by the
\* tracker, in the pending-new buffer or the live mapping, an add_request
\* with an id that had an unfinished stream in the pending-new buffer has
\* raised, and the new requests a drain returned have pairwise distinct ids.
C31_OneUnfinishedStreamPerId ==
    /\ \A a, b \in 1..Len(streams) :
          (/\ HeldByTracker(a) /\ HeldByTracker(b)
           /\ ~streams[a].finished /\ ~streams[b].finished
           /\ streams[a].request_id = streams[b].request_id) => a = b
    /\ (/\ log.op = "add_request"
        /\ \E sid \in Range(log.before.new_requests) :
              /\ log.before.streams[sid].request_id = log.request_id
              /\ ~log.before.streams[sid].finished) => log.raised = "KeyError"
    /\ \A i, j \in 1..Len(log.new) :
          streams[log.new[i]].request_id = streams[log.new[j]].request_id => i = j

\* C32: in the life of one loop task, with pairwise distinct request ids,
\* every stream add_request returned is eventually finished unless the loop
\* task ends, and no stream ever holds more than one terminal marker.
C32_EveryStreamGetsOneMarker ==
    /\ \A sid \in StreamIds :
          (sid <= Len(streams)) ~>
             (LoopTaskDone \/ (sid <= Len(streams) /\ streams[sid].finished))
    /\ [](\A sid \in 1..Len(streams) : Markers(streams[sid].queue) <= 1)

\* C33: in every state, whatever aborts have been issued, a submission made
\* now is forwarded to the engine's admission path by the next drain
\* unless add_request refuses it.
C33_AbortReachesNoLaterSubmission ==
    \A q \in RequestIds : LaterSubmission(T, q) \in {"refused", "forwarded"}

\* C34: if the step task of a virtual engine stays suspended in the
\* engine's compute call for ever, the loop task eventually ends and the
\* facade is errored.
C34_WedgedStepIsDetected ==
    \A v \in VirtualEngines :
       <>[](tasks[1][v].pc = "exec") => <>(LoopTaskDone /\ errored)

\* C35: a step that starts a loop task, and with it replaces the tracker,
\* is taken only when every stream the current tracker holds, in the
\* pending-new buffer or the live mapping, is finished.
C35_NoRestartOverOpenStreams ==
    [][starts' # starts =>
          \A sid \in 1..Len(streams) :
             HeldByTracker(sid) => streams[sid].finished]_vars

\* C36: in every state is_running excludes is_stopped and errored, and
\* once the facade is errored every later state is errored and not running.
C36_StatusQueriesConsistent ==
    /\ [](~(is_running /\ is_stopped) /\ ~(is_running /\ errored))
    /\ [][errored => (errored_with' # "none" /\ ~(starts' > 0 /\ loop_pc' \notin {"failed", "cancelled"}))]_vars

====
